---------------------------- MODULE Spec2Model ----------------------------
(***************************************************************************)
(* A model of financial_modeling_prep.py: the FinancialModelingPrep client *)
(* (get_quotes, get_financials and their helpers) run against an HTTP      *)
(* transport that may raise, answer with a body that is not JSON, or       *)
(* answer with any of a few JSON documents.                                *)
(*                                                                         *)
(* Python values are records tagged by their type in field t, JSON         *)
(* documents are records tagged by their kind in field j, and strings are  *)
(* TLA+ strings.  A ticker symbol is kept as its sequence of characters so *)
(* that str.upper() is computed character by character.                    *)
(***************************************************************************)
EXTENDS Naturals, Sequences, FiniteSets, TLC

\* Largest number of periods a served "financials" array holds.
MaxPeriods == 3
\* Largest minimum_years a caller passes.
MaxYears == 3

\* The ticker symbols callers pass, as character sequences.
Symbols == { <<"a", "b">>, <<"A", "b">>, <<"x">> }

\* The addresses the client object may be allocated at (they show in the
\* repr of its bound methods).
ObjAddrs == { "0x7f3a10", "0x7f3a58" }

VARIABLES
    base_url,     \* self.base_url
    self_addr,    \* id(self), as repr prints it
    pc,           \* "idle", "income", "balance", "cash_flow", "done"
    call,         \* the public operation running or last run, with its arguments
    financials,   \* get_financials' local dict
    api_ret,      \* the pair the last _call_api returned (the callers' locals)
    requests,     \* the urls requests.get was called with during this call
    served,       \* what the transport did for each of them
    outcome,      \* how the call ended: a returned value or a raised exception
    deterministic,\* whether the transport answers a url as it did the call before
    prev          \* the call before this one, if the same (deterministic transport)

vars == << base_url, self_addr, pc, call, financials, api_ret, requests,
           served, outcome, deterministic, prev >>

-----------------------------------------------------------------------------
(* Python values *)

None == [t |-> "None"]

PyStr(s) == [t |-> "str", v |-> s]

PyInt(n) == [t |-> "int", v |-> n]

PyList(s) == [t |-> "list", v |-> s]

PyDict(f) == [t |-> "dict", v |-> f]

\* An exception object of class type with message msg.
Exc(type, msg) == [t |-> "exc", type |-> type, msg |-> msg]

\* type(v).__name__, as error messages print it.
TypeName(v) == IF v.t = "None" THEN "NoneType" ELSE v.t

\* A test of the error that never sees one.
TruthyNever(v) == FALSE

\* bool(v), the test `if err:` makes.
Truthy(v) ==
    CASE v.t = "None" -> FALSE
      [] v.t = "int"  -> v.v # 0
      [] v.t = "str"  -> v.v # ""
      [] v.t = "list" -> v.v # << >>
      [] v.t = "dict" -> DOMAIN v.v # {}
      [] OTHER        -> TRUE

\* The result of evaluating an expression: a value, or an exception raised.
Value(v) == [ok |-> TRUE, val |-> v]

Raised(e) == [ok |-> FALSE, exc |-> e]

-----------------------------------------------------------------------------
(* Strings *)

UpperChar(c) ==
    CASE c = "a" -> "A"
      [] c = "b" -> "B"
      [] c = "x" -> "X"
      [] OTHER   -> c

\* symbol.upper()
upper(symbol) == [i \in DOMAIN symbol |-> UpperChar(symbol[i])]

\* The string a character sequence spells.
RECURSIVE Str(_)
Str(s) == IF s = << >> THEN "" ELSE Head(s) \o Str(Tail(s))

\* What an f-string prints for {self.<method>} when the method is not
\* called: the repr of the bound method.
BoundMethodRepr(method, addr) ==
    "<bound method FinancialModelingPrep." \o method
        \o " of <financial_modeling_prep.FinancialModelingPrep object at "
        \o addr \o ">>"

-----------------------------------------------------------------------------
(* JSON documents and the transport *)

JNull == [j |-> "null"]

JString(s) == [j |-> "string", s |-> s]

JNumber(n) == [j |-> "number", n |-> n]

JArray(items) == [j |-> "array", items |-> items]

JObject(members) == [j |-> "object", members |-> members]

\* A body that is not JSON at all.
NotJson == [j |-> "invalid"]

\* A statement bundle with n periods.
Bundle(n) ==
    JObject([symbol |-> JString("XYZ"),
             financials |-> JArray([i \in 1..n |-> JNumber(i)])])

JsonDocs ==
    { JNull, JArray(<< >>), JObject([symbol |-> JString("XYZ")]),
      JObject([symbol |-> JString("XYZ"), financials |-> JNull]) }
        \cup { Bundle(n) : n \in 0..MaxPeriods }

\* What requests.get(url) may do: raise, or hand back a response with a body.
Transport ==
    { [kind |-> "exception"] }
        \cup { [kind |-> "response", body |-> b] : b \in JsonDocs \cup {NotJson} }

\* response.json() on a body that is JSON.
RECURSIVE loads(_)
loads(d) ==
    CASE d.j = "null"   -> None
      [] d.j = "string" -> PyStr(d.s)
      [] d.j = "number" -> PyInt(d.n)
      [] d.j = "array"  -> PyList([i \in DOMAIN d.items |-> loads(d.items[i])])
      [] d.j = "object" ->
            PyDict([k \in DOMAIN d.members |-> loads(d.members[k])])

-----------------------------------------------------------------------------
(* The client *)

\* data[key]
GetItem(data, key) ==
    CASE data.t = "dict" ->
            IF key \in DOMAIN data.v THEN Value(data.v[key])
            ELSE Raised(Exc("KeyError", key))
      [] data.t = "list" ->
            Raised(Exc("TypeError", "list indices must be integers or slices, not str"))
      [] data.t = "str" ->
            Raised(Exc("TypeError", "string indices must be integers"))
      [] OTHER ->
            Raised(Exc("TypeError",
                       "'" \o TypeName(data) \o "' object is not subscriptable"))

\* len(v)
PyLen(v) ==
    CASE v.t = "list" -> Value(Len(v.v))
      [] v.t = "dict" -> Value(Cardinality(DOMAIN v.v))
      [] v.t = "str"  -> Value(Len(v.v))
      [] OTHER ->
            Raised(Exc("TypeError",
                       "object of type '" \o TypeName(v) \o "' has no len()"))

\* value.json(): only a response object has the method.
CallJson(value) ==
    IF value.t = "Response"
    THEN IF value.body.j = "invalid"
         THEN Raised(Exc("JSONDecodeError", "Expecting value"))
         ELSE Value(loads(value.body))
    ELSE Raised(Exc("AttributeError",
                    "'" \o TypeName(value) \o "' object has no attribute 'json'"))

\* _call_api returning the response object itself instead of its decoded body.
_call_api_raw(url, tr) ==
    [sent |-> << url >>,
     ret  |-> IF tr.kind = "exception"
              THEN << None, Exc("ConnectionError", "") >>
              ELSE << [t |-> "Response", body |-> tr.body], None >>]

\* _call_api(url) when the transport does tr: the urls it requested and the
\* pair it returns.
_call_api(url, tr) ==
    [sent |-> << url >>,
     ret  |-> IF tr.kind = "exception"
              THEN << None, Exc("ConnectionError", "") >>
              ELSE IF tr.body.j = "invalid"
              THEN << None, Exc("JSONDecodeError", "Expecting value") >>
              ELSE << loads(tr.body), None >>]

\* f"{self._version}": the method is formatted, not called.
_version_fmt == BoundMethodRepr("_version", self_addr)

\* The url get_quotes builds (line 23).
quote_url(symbol) == _version_fmt \o "quote/" \o Str(upper(symbol))

\* f"{self._financials}": the method is formatted, not called.
_financials_fmt == BoundMethodRepr("_financials", self_addr)

\* The url each statement getter builds (lines 165, 183, 201).
income_statement_url(symbol) ==
    _financials_fmt \o "income-statement/" \o Str(upper(symbol))

balance_sheet_url(symbol) ==
    _financials_fmt \o "balance-sheet-statement/" \o Str(upper(symbol))

cash_flow_statement_url(symbol) ==
    _financials_fmt \o "cash-flow-statement/" \o Str(upper(symbol))

_get_income_statement(symbol, tr) == _call_api(income_statement_url(symbol), tr)

_get_balance_sheet(symbol, tr) == _call_api(balance_sheet_url(symbol), tr)

_get_cash_flow_statement(symbol, tr) ==
    _call_api(cash_flow_statement_url(symbol), tr)

\* The test with > in place of >=.
_has_more_than_minimum_strict(minimum_years, data) ==
    LET item == GetItem(data, "financials")
        n    == PyLen(item.val)
    IN  IF ~item.ok THEN item
        ELSE IF ~n.ok THEN n
        ELSE Value(n.val > minimum_years)

\* The test accepting one period fewer than asked for.
_has_more_than_minimum_lax(minimum_years, data) ==
    LET item == GetItem(data, "financials")
        n    == PyLen(item.val)
    IN  IF ~item.ok THEN item
        ELSE IF ~n.ok THEN n
        ELSE Value(n.val + 1 >= minimum_years)

\* len(data["financials"]) >= minimum_years
_has_more_than_minimum(minimum_years, data) ==
    LET item == GetItem(data, "financials")
        n    == PyLen(item.val)
    IN  IF ~item.ok THEN item
        ELSE IF ~n.ok THEN n
        ELSE Value(n.val >= minimum_years)

\* The messages of the exceptions the two public operations raise.
QuoteFetchMsg(symbol) ==
    "Failed to fetch quote data for ticker symbol " \o Str(symbol) \o "."

IncomeFetchMsg(symbol) ==
    "Failed to fetch income statement for ticker symbol " \o Str(symbol) \o "."

IncomeShortMsg(symbol) ==
    "Not enough data found in the income statement for ticker symbol "
        \o Str(symbol) \o "."

BalanceFetchMsg(symbol) ==
    "Failed to fetch balance sheet for ticker symbol " \o Str(symbol)

BalanceShortMsg(symbol) ==
    "Not enough data found in the balance sheet for ticker symbol "
        \o Str(symbol) \o "."

CashFlowFetchMsg(symbol) ==
    "Failed to fetch cash flow statement for ticker symbol " \o Str(symbol)

CashFlowShortMsg(symbol) ==
    "Not enough data found in the cash flow statement for ticker symbol "
        \o Str(symbol) \o "."

-----------------------------------------------------------------------------
(* The state machine *)

NoCall == [op |-> "none"]

NoOutcome == [kind |-> "none"]

Returned(v) == [kind |-> "return", value |-> v]

Raise(e) == [kind |-> "raise", exc |-> e]

NoPrev == [valid |-> FALSE]

\* The call that has just completed, kept when the caller makes the same call
\* again (next is the call being made) against a deterministic transport.
Completed(next) ==
    IF deterministic /\ pc = "done" /\ next = call
    THEN [valid |-> TRUE, call |-> call, requests |-> requests,
          served |-> served, outcome |-> outcome]
    ELSE NoPrev

\* What the transport may do for url when the call before this one was h:
\* anything, unless it is deterministic and answered url during h.
Answers(h, url) ==
    IF h.valid /\ \E i \in DOMAIN h.requests : h.requests[i] = url
    THEN { h.served[i] : i \in { k \in DOMAIN h.requests : h.requests[k] = url } }
    ELSE Transport

\* The client after construction (lines 4-5), before any call.
Start ==
    /\ base_url = "financialmodelingprep.com"
    /\ self_addr \in ObjAddrs
    /\ pc = "idle"
    /\ call = NoCall
    /\ financials = << >>
    /\ api_ret = << None, None >>
    /\ requests = << >>
    /\ served = << >>
    /\ outcome = NoOutcome
    /\ prev = NoPrev

\* Calls against a transport free to answer every request as it likes.
Init == Start /\ deterministic = FALSE

\* Calls against a transport that answers a url the way it did the call before.
InitDet == Start /\ deterministic = TRUE

\* get_quotes(symbol), lines 23-29, from the call to its return or raise:
\* what it does to everything but the client object.
get_quotes_body ==
    /\ pc \in {"idle", "done"}
    /\ \E symbol \in Symbols :
        \E tr \in Answers(Completed([op |-> "get_quotes", symbol |-> symbol]),
                          quote_url(symbol)) :
        LET r   == _call_api(quote_url(symbol), tr)
            quote_response == r.ret[1]
            err == r.ret[2]
            res == CallJson(quote_response)
        IN  /\ call' = [op |-> "get_quotes", symbol |-> symbol]
            /\ prev' = Completed(call')
            /\ requests' = r.sent
            /\ served' = << tr >>
            /\ api_ret' = r.ret
            /\ outcome' = IF Truthy(err)
                          THEN Raise(Exc("Exception", QuoteFetchMsg(symbol)))
                          ELSE IF res.ok THEN Returned(res.val)
                          ELSE Raise(res.exc)
    /\ pc' = "done"
    /\ financials' = << >>
    /\ UNCHANGED << self_addr, deterministic >>

\* get_quotes appending the version path to self.base_url as it builds the url.
get_quotes_appending ==
    /\ get_quotes_body
    /\ base_url' = base_url \o "/api/v3/"

\* get_quotes(symbol): the client object is only read.
get_quotes ==
    /\ get_quotes_body
    /\ UNCHANGED base_url

\* get_financials(symbol, minimum_years) up to line 82: financials = {}.
get_financials ==
    /\ pc \in {"idle", "done"}
    /\ \E symbol \in Symbols, minimum_years \in 0..MaxYears :
        call' = [op |-> "get_financials", symbol |-> symbol,
                 minimum_years |-> minimum_years]
    /\ financials' = << >>
    /\ requests' = << >>
    /\ served' = << >>
    /\ api_ret' = << None, None >>
    /\ outcome' = NoOutcome
    /\ pc' = "income"
    /\ prev' = Completed(call')
    /\ UNCHANGED << base_url, self_addr, deterministic >>

\* One statement of get_financials: the fetch, the two tests and the store.
\* r is what the statement's getter returned when the transport did tr.
Statement(r, tr, key, fetch_msg, short_msg, next_pc) ==
    LET response == r.ret[1]
        err      == r.ret[2]
        enough   == _has_more_than_minimum(call.minimum_years, response)
        stored   == (key :> response) @@ financials
    IN  /\ requests' = requests \o r.sent
        /\ served' = Append(served, tr)
        /\ api_ret' = r.ret
        /\ IF Truthy(err)
           THEN /\ outcome' = Raise(Exc("Exception", fetch_msg))
                /\ pc' = "done"
                /\ UNCHANGED financials
           ELSE IF ~enough.ok
           THEN /\ outcome' = Raise(enough.exc)
                /\ pc' = "done"
                /\ UNCHANGED financials
           ELSE IF ~enough.val
           THEN /\ outcome' = Raise(Exc("Exception", short_msg))
                /\ pc' = "done"
                /\ UNCHANGED financials
           ELSE /\ financials' = stored
                /\ pc' = next_pc
                /\ outcome' = IF next_pc = "done" THEN Returned(PyDict(stored))
                              ELSE outcome
        /\ UNCHANGED << base_url, self_addr, deterministic, call, prev >>

\* Lines 84-89.
income_statement ==
    /\ pc = "income"
    /\ \E tr \in Answers(prev, income_statement_url(call.symbol)) :
        Statement(_get_income_statement(call.symbol, tr), tr, "income_statement",
                  IncomeFetchMsg(call.symbol), IncomeShortMsg(call.symbol),
                  "balance")

\* Lines 91-96.
balance_sheet ==
    /\ pc = "balance"
    /\ \E tr \in Answers(prev, balance_sheet_url(call.symbol)) :
        Statement(_get_balance_sheet(call.symbol, tr), tr, "balance_sheet",
                  BalanceFetchMsg(call.symbol), BalanceShortMsg(call.symbol),
                  "cash_flow")

\* Lines 98-105, the return included.
cash_flow_statement ==
    /\ pc = "cash_flow"
    /\ \E tr \in Answers(prev, cash_flow_statement_url(call.symbol)) :
        Statement(_get_cash_flow_statement(call.symbol, tr), tr,
                  "cash_flow_statement",
                  CashFlowFetchMsg(call.symbol), CashFlowShortMsg(call.symbol),
                  "done")

Next ==
    \/ get_quotes
    \/ get_financials
    \/ income_statement
    \/ balance_sheet
    \/ cash_flow_statement

Spec == Init /\ [][Next]_vars

SpecDet == InitDet /\ [][Next]_vars

-----------------------------------------------------------------------------
(* What the transport did, read off the documents it served *)

InQuotes == call.op = "get_quotes"

InFinancials == call.op = "get_financials"

\* The fetch failed at the transport: requests.get raised, or the body it
\* handed back is not JSON.
FetchFailed(tr) ==
    \/ tr.kind = "exception"
    \/ tr.kind = "response" /\ tr.body.j = "invalid"

\* The fetch succeeded with a body that is JSON.
ValidJson(tr) == tr.kind = "response" /\ tr.body.j # "invalid"

\* The fetch succeeded with a mapping whose "financials" is a sequence.
IsBundle(tr) ==
    /\ ValidJson(tr)
    /\ tr.body.j = "object"
    /\ "financials" \in DOMAIN tr.body.members
    /\ tr.body.members.financials.j = "array"

PeriodCount(tr) == Len(tr.body.members.financials.items)

StatementNames == << "income statement", "balance sheet", "cash flow statement" >>

\* The exception is the fetch error of statement i for symbol: it names both.
IsFetchError(o, i, symbol) ==
    /\ o.kind = "raise"
    /\ o.exc.type = "Exception"
    /\ \E stop \in {"", "."} :
        o.exc.msg = "Failed to fetch " \o StatementNames[i]
                        \o " for ticker symbol " \o Str(symbol) \o stop

\* The exception is the insufficient-data error of statement i for symbol.
IsInsufficientData(o, i, symbol) ==
    /\ o.kind = "raise"
    /\ o.exc.type = "Exception"
    /\ o.exc.msg = "Not enough data found in the " \o StatementNames[i]
                       \o " for ticker symbol " \o Str(symbol) \o "."

\* The exception is the fetch error of get_quotes for symbol.
IsQuoteFetchError(o, symbol) ==
    /\ o.kind = "raise"
    /\ o.exc.type = "Exception"
    /\ o.exc.msg = "Failed to fetch quote data for ticker symbol "
                       \o Str(symbol) \o "."

\* All three statements were fetched and each holds at least minimum_years
\* periods.
AllThreePass ==
    /\ Len(served) = 3
    /\ \A i \in 1..3 :
        IsBundle(served[i]) /\ PeriodCount(served[i]) >= call.minimum_years

-----------------------------------------------------------------------------
(* The claims *)

\* C1: when the transport succeeds with a body that is valid JSON,
\* get_quotes returns normally and its result is the parsed body unchanged.
C1_QuoteReturnsParsedBody ==
    (pc = "done" /\ InQuotes /\ ValidJson(served[1]))
        => outcome = Returned(loads(served[1].body))

\* C2: get_financials returns a result if and only if all three statement
\* fetches succeed with a "financials" sequence of length >= minimum_years
\* (equality accepted); otherwise it fails; a result always holds all three
\* statements, and nothing is returned before the third has passed.
C2_ResultIffAllThreePass ==
    InFinancials =>
        /\ pc # "done" => outcome = NoOutcome
        /\ pc = "done" =>
            /\ outcome.kind = "return" <=> AllThreePass
            /\ ~AllThreePass => outcome.kind = "raise"
            /\ outcome.kind = "return" =>
                outcome.value =
                    PyDict([income_statement    |-> loads(served[1].body),
                            balance_sheet       |-> loads(served[2].body),
                            cash_flow_statement |-> loads(served[3].body)])

\* C2's case: a result returned with a statement holding exactly
\* minimum_years periods.
C2_Witness ==
    /\ pc = "done" /\ InFinancials /\ outcome.kind = "return"
    /\ call.minimum_years = 2
    /\ PeriodCount(served[1]) = 2 /\ PeriodCount(served[3]) = 3

\* C3: a statement fetch that fails at the transport is the last request of
\* the call, and the call fails with the fetch error of that statement.
C3_FetchFailureAborts ==
    InFinancials =>
        \A i \in DOMAIN served :
            FetchFailed(served[i]) =>
                /\ i = Len(served)
                /\ Len(requests) = i
                /\ pc = "done"
                /\ IsFetchError(outcome, i, call.symbol)

\* C3's case: the balance sheet fetch failed after the income statement passed.
C3_Witness ==
    /\ InFinancials /\ pc = "done" /\ Len(served) = 2
    /\ served[2].kind = "exception"
    /\ Len(requests) = 2

\* C4: a fetched statement with fewer than minimum_years periods is the last
\* request of the call, and the call fails with the insufficient-data error
\* naming that statement and the symbol.
C4_ShortStatementAborts ==
    InFinancials =>
        \A i \in DOMAIN served :
            (IsBundle(served[i]) /\ PeriodCount(served[i]) < call.minimum_years) =>
                /\ i = Len(served)
                /\ Len(requests) = i
                /\ pc = "done"
                /\ IsInsufficientData(outcome, i, call.symbol)

\* C4's case: an income statement of 2 periods when 3 are asked for.
C4_Witness ==
    /\ InFinancials /\ pc = "done" /\ call.minimum_years = 3
    /\ Len(served) = 1 /\ IsBundle(served[1]) /\ PeriodCount(served[1]) = 2
    /\ Len(requests) = 1

\* C5: get_quotes issues exactly one GET, to the base url followed by
\* "/api/v3/quote/" and the uppercased symbol.
C5_QuoteUrl ==
    (pc = "done" /\ InQuotes) =>
        requests = << base_url \o "/api/v3/quote/" \o Str(upper(call.symbol)) >>

\* C6: get_quotes fails with the fetch error carrying the symbol whenever the
\* HTTP call raises or the body is not valid JSON, and fails in no other case.
C6_QuoteFailsOnlyOnFetchFailure ==
    (pc = "done" /\ InQuotes) =>
        /\ FetchFailed(served[1]) => IsQuoteFetchError(outcome, call.symbol)
        /\ outcome.kind = "raise" => FetchFailed(served[1])

\* C7: against a deterministic transport, the same call made twice in a row
\* ends the same way and requests the same urls in the same order, and no
\* operation ever changes the client's base url.
C7_Idempotent ==
    /\ base_url = "financialmodelingprep.com"
    /\ (pc = "done" /\ prev.valid) =>
        /\ prev.call = call
        /\ outcome = prev.outcome
        /\ requests = prev.requests

\* C7's case: a get_financials call that failed at its second statement,
\* made again.
C7_Witness ==
    /\ pc = "done" /\ prev.valid /\ InFinancials
    /\ Len(prev.requests) = 2 /\ outcome.kind = "raise"

\* C8: a successful get_financials issues exactly three GETs, in the order
\* income statement, balance sheet, cash flow statement, each to the
\* financials prefix (base url, "/api/v3/", "financials/") followed by the
\* endpoint path and the uppercased symbol.
C8_FinancialsUrls ==
    (pc = "done" /\ InFinancials /\ outcome.kind = "return") =>
        requests =
            << base_url \o "/api/v3/" \o "financials/" \o "income-statement/"
                   \o Str(upper(call.symbol)),
               base_url \o "/api/v3/" \o "financials/" \o "balance-sheet-statement/"
                   \o Str(upper(call.symbol)),
               base_url \o "/api/v3/" \o "financials/" \o "cash-flow-statement/"
                   \o Str(upper(call.symbol)) >>

\* C9: whatever the statement endpoints answer, get_financials returns a
\* result or fails with a fetch error or an insufficient-data error naming
\* the statement and the symbol; no other error escapes.
C9_OnlyDocumentedErrors ==
    (pc = "done" /\ InFinancials) =>
        \/ outcome.kind = "return"
        \/ \E i \in 1..3 :
            \/ IsFetchError(outcome, i, call.symbol)
            \/ IsInsufficientData(outcome, i, call.symbol)

\* C10 as stated: after a fetch, exactly one element of the pair _call_api
\* returned is set.
C10_ExactlyOneSet ==
    Len(served) >= 1 => ((api_ret[1] # None) <=> (api_ret[2] = None))

\* C10 as amended: every fetch is one GET; _call_api never raises (no
\* transport or decoding exception escapes the call); on failure it returns
\* (None, error), on success (the decoded body, None), so at most one element
\* is set, the error exactly when the fetch failed, and the value is the
\* decoded JSON (None for a null body), never the raw response.
C10_PairOfValueOrError ==
    /\ Len(requests) = Len(served)
    /\ outcome.kind = "raise" =>
        outcome.exc.type \notin {"ConnectionError", "JSONDecodeError"}
    /\ Len(served) >= 1 =>
        LET tr == served[Len(served)]
        IN  /\ FetchFailed(tr) =>
                api_ret[1] = None /\ api_ret[2].t = "exc"
            /\ ValidJson(tr) =>
                api_ret = << loads(tr.body), None >>
            /\ ~(api_ret[1] # None /\ api_ret[2] # None)

\* C10's case: a fetch that succeeded with a JSON object, decoded.
C10_Witness ==
    /\ Len(served) >= 1
    /\ IsBundle(served[Len(served)])
    /\ api_ret[1].t = "dict" /\ api_ret[2] = None

=============================================================================
